---------------------------- MODULE Spec2Model ----------------------------
(***************************************************************************)
(* The orchestration management client (DurableOrchestrationClient) and    *)
(* its HTTP transport (WebhookClient) as a state machine.                  *)
(*                                                                         *)
(* One behaviour is one call of a public operation of the client: the     *)
(* call runs up to its first await, the host answers the request in       *)
(* flight event by event (response, data, end, error), the continuation   *)
(* runs up to the next await, and so on until the returned promise is     *)
(* settled or can no longer be settled.                                    *)
(*                                                                         *)
(* Strings are sequences of tokens, time is in whole ticks of the          *)
(* millisecond clock the polling loop reads.                               *)
(***************************************************************************)
EXTENDS Integers, Sequences, FiniteSets, TLC

(***************************************************************************)
(* Bounds of the model.                                                    *)
(***************************************************************************)
MaxTimeout == 3
MaxLatency == 1
MaxQueries == 5
MaxChunks == 2
MaxTransportTimeout == 2
\* What the monotonic clock shows when the operation is called.
ClockOrigin == 2

(***************************************************************************)
(* JavaScript values.  Every value is a record tagged by its type.         *)
(***************************************************************************)
Undefined == [t |-> "undefined"]
Null == [t |-> "null"]
Str(s) == [t |-> "string", s |-> s]
OutputX1 == [t |-> "object", x |-> 1]
\* The body of the answer to a start request: a management payload with the
\* id of the new instance.
PayloadAbc123 == [t |-> "object", id |-> Str("abc123")]
StatusObject(rs, out) == [t |-> "object", runtimeStatus |-> rs, output |-> out]

\* OrchestrationRuntimeStatus
OrchestrationRuntimeStatus ==
    {"Running", "Completed", "ContinuedAsNew", "Failed", "Canceled",
     "Terminated", "Pending", "Unknown"}

\* if (status): null, undefined and the empty string are falsy.
Truthy(v) == v.t \notin {"undefined", "null"} /\ (v.t = "string" => v.s # "")

\* status.runtimeStatus, undefined when the value has no such property.
RuntimeStatusOf(v) ==
    IF "runtimeStatus" \in DOMAIN v THEN v.runtimeStatus ELSE "undefined"

\* status.output, undefined when the value has no such property.
OutputOf(v) == IF "output" \in DOMAIN v THEN v.output ELSE Undefined

\* body.id, undefined when the value has no such property.
IdOf(v) == IF "id" \in DOMAIN v THEN v.id ELSE Undefined

\* String(v), the message new Error(v) gets.
String(v) ==
    CASE v.t = "string" -> v.s
      [] v.t = "null" -> "null"
      [] v.t = "undefined" -> "undefined"
      [] OTHER -> "[object Object]"

(***************************************************************************)
(* JSON text: a sequence of tokens.                                        *)
(***************************************************************************)
JsonValues ==
    {Null, Str("boom"), OutputX1, PayloadAbc123}
      \cup {StatusObject(rs, OutputX1) : rs \in OrchestrationRuntimeStatus}
      \cup {StatusObject("Completed", Undefined)}

\* JSON.stringify: undefined has no JSON text (the result is undefined), a
\* property whose value is undefined is left out.
JSONstringify(v) ==
    CASE v.t = "undefined" -> Undefined
      [] v.t = "null" -> [t |-> "text", s |-> <<"null">>]
      [] v.t = "string" -> [t |-> "text", s |-> <<"\"", v.s, "\"">>]
      [] v.t = "object" /\ "x" \in DOMAIN v -> [t |-> "text", s |-> <<"{", "x:1", "}">>]
      [] v.t = "object" /\ "id" \in DOMAIN v ->
            [t |-> "text", s |-> <<"{", "id:", v.id.s, "}">>]
      [] v.t = "object" /\ "runtimeStatus" \in DOMAIN v ->
            [t |-> "text",
             s |-> <<"{", v.runtimeStatus>>
                     \o (IF v.output = Undefined THEN <<>> ELSE <<"x:1">>)
                     \o <<"}">>]

SyntaxError == [t |-> "SyntaxError"]

\* JSON.parse: the value whose JSON text this is, or a SyntaxError thrown.
JSONparse(text) ==
    IF \E v \in JsonValues : JSONstringify(v).s = text
    THEN CHOOSE v \in JsonValues : JSONstringify(v).s = text
    ELSE SyntaxError

\* What the host may put on the wire as a response body: the JSON text of a
\* value, no body at all, or a body cut short.
WireTexts == {JSONstringify(v).s : v \in JsonValues} \cup {<<>>, <<"{">>}

(***************************************************************************)
(* String.prototype.replace(pattern, replacement) with a string pattern:   *)
(* the first occurrence only.                                              *)
(***************************************************************************)
OccursAt(s, pat, i) ==
    /\ i + Len(pat) - 1 <= Len(s)
    /\ \A j \in 1..Len(pat) : s[i + j - 1] = pat[j]

replace(s, pat, rep) ==
    IF \E i \in 1..Len(s) : OccursAt(s, pat, i)
    THEN LET i == CHOOSE k \in 1..Len(s) :
                     /\ OccursAt(s, pat, k)
                     /\ \A m \in 1..(k - 1) : ~OccursAt(s, pat, m)
         IN SubSeq(s, 1, i - 1) \o rep \o SubSeq(s, i + Len(pat), Len(s))
    ELSE s


(***************************************************************************)
(* The data of the orchestration client binding, read once by the          *)
(* constructor.  A URL is a sequence of tokens: scheme, authority, then     *)
(* path and query pieces.                                                   *)
(***************************************************************************)
DataOrigin == <<"http:", "//localhost:7071">>
DataQuery ==
    <<"?taskHub=", "DurableFunctionsHub", "&connection=", "Storage", "&code=", "XXX">>

\* Binding data with the given id placeholder and origin; when repeated, each
\* management URL carries the placeholder a second time, in its query.
BindingData(placeholder, dataOrigin, repeated) ==
    LET again == IF repeated THEN <<"&instance=">> \o placeholder ELSE <<>>
    IN [taskHubName |-> <<"DurableFunctionsHub">>,
        managementUrls |->
           [id |-> placeholder,
            statusQueryGetUri |->
               dataOrigin \o <<"/instances/">> \o placeholder \o DataQuery \o again,
            sendEventPostUri |->
               dataOrigin \o <<"/instances/">> \o placeholder
                   \o <<"/raiseEvent/", "{eventName}">> \o DataQuery \o again,
            terminatePostUri |->
               dataOrigin \o <<"/instances/">> \o placeholder
                   \o <<"/terminate", "?reason=", "{text}">>
                   \o <<"&taskHub=", "DurableFunctionsHub", "&connection=", "Storage", "&code=", "XXX">>
                   \o again,
            rewindPostUri |->
               dataOrigin \o <<"/instances/">> \o placeholder
                   \o <<"/rewind", "?reason=", "{text}">>
                   \o <<"&taskHub=", "DurableFunctionsHub", "&connection=", "Storage", "&code=", "XXX">>
                   \o again],
        creationUrls |->
           [createNewInstancePostUri |->
               dataOrigin \o <<"/orchestrators/", "{functionName}", "[/{instanceId}]", "?code=", "XXX">>]]

OrchestrationClientInputData == BindingData(<<"INSTANCEID">>, DataOrigin, FALSE)

\* The binding data a client may be constructed from.
BindingDatas ==
    {BindingData(placeholder, dataOrigin, repeated) :
        placeholder \in {<<"INSTANCEID">>, <<"{id}">>},
        dataOrigin \in {DataOrigin, <<"https:", "//fn.example.net">>},
        repeated \in BOOLEAN}

eventNamePlaceholder == <<"{eventName}">>
functionNamePlaceholder == <<"{functionName}">>
instanceIdPlaceholder == <<"[/{instanceId}]">>
reasonPlaceholder == <<"{text}">>
showHistoryQueryKey == "showHistory"
showHistoryOutputQueryKey == "showHistoryOutput"
createdTimeFromQueryKey == "createdTimeFrom"
createdTimeToQueryKey == "createdTimeTo"
runtimeStatusQuerykey == "runtimeStats"

(***************************************************************************)
(* Arguments the caller may pass.                                          *)
(***************************************************************************)
InstanceIds == {<<"abc123">>, <<"i2">>}
RequestUrl == <<"https:", "//example.com", "/api/start">>
Requests == {Undefined, [t |-> "request", url |-> RequestUrl]}
\* The requests createCheckStatusResponse is called with: none, an IRequest,
\* an IHttpRequest with and without a URL.
CheckStatusRequests ==
    Requests \cup {[t |-> "request", http |-> [t |-> "object", url |-> RequestUrl]],
                   [t |-> "request", http |-> [t |-> "object"]]}
\* Ids the payload is built for; one of them is a word the templates hold too.
PayloadIds == InstanceIds \cup {<<"Storage">>}
Timeouts == 0..MaxTimeout
RetryIntervals == 0..(MaxTimeout + 1)
EventNames == {<<>>, <<"approve">>}
\* The instances raiseEvent is called for; one of them is named as the task
\* hub is.
RaiseEventInstanceIds == InstanceIds \cup {<<"DurableFunctionsHub">>}
TaskHubNames == {<<>>, <<"OtherHub">>}
ConnectionNames == {<<>>, <<"Other">>}
Reasons == {<<>>, <<"because">>}
OrchestratorFunctionNames == {<<>>, <<"Foo">>}
\* startNew's instanceId is optional.
OptionalInstanceIds == {<<>>, <<"abc123">>}
Inputs == {Undefined, OutputX1}
\* The arguments of getStatusBy: a date is its toISOString(), the empty
\* sequence a date left out.
CreatedTimes == {<<>>, <<"2019-01-01T00:00:00.000Z">>}
RuntimeStatusFilters == {<<>>, <<"Running", "Failed">>}
\* What WebhookClient.get and post are called with.
TransportUrls ==
    {<<"http:", "//localhost:7071", "/instances/", "abc123">>,
     <<"https:", "//fn.example.net", "/instances/", "abc123">>,
     <<"ftp:", "//localhost:7071", "/instances/", "abc123">>}
\* A timeoutInMilliseconds that is left out: undefined, falsy as 0 is.
NoTimeout == 0
TransportTimeouts == {NoTimeout} \cup (1..MaxTransportTimeout)

\* Status codes the host may answer with.
StatusCodes == {200, 202, 400, 404, 410, 500, 503}

(***************************************************************************)
(* Errors: the message template and the values interpolated into it.       *)
(***************************************************************************)
Error(message, status, body, instanceId) ==
    [name |-> "Error", message |-> message, status |-> status, body |-> body,
     instanceId |-> instanceId]

\* The connection errors the request object may emit.
ConnectionErrors ==
    {Error("ECONNRESET", 0, Undefined, <<>>), Error("ECONNREFUSED", 0, Undefined, <<>>)}

(***************************************************************************)
(* State.                                                                  *)
(***************************************************************************)
VARIABLES
    clientData,   \* this.clientData
    taskHubName,  \* this.taskHubName
    call,         \* the operation called and its arguments
    pc,           \* "idle", "await" (a transport promise), "sleeping", "done"
    clock,        \* the monotonic clock process.hrtime reads
    hrStart,      \* the polling loop's start timestamp
    sleepFor,     \* the delay of the pending Utils.sleep timer
    net,          \* the HTTP exchange of the pending transport call
    promise,      \* the promise callWebhook returned
    outcome,      \* how the operation's own promise was settled
    trace,        \* the requests issued and sleeps started, in order
    other         \* a second call under way on the same client, while the
                  \* event loop runs the first: its locals, exchange and promises

vars == <<clientData, taskHubName, call, pc, clock, hrStart, sleepFor,
          net, promise, outcome, trace, other>>

(***************************************************************************)
(* The client's pure operations.                                           *)
(***************************************************************************)
\* validator's isURL under urlValidationOptions: a protocol is required and
\* must be http or https.
isURL(s) == Len(s) >= 2 /\ s[1] \in {"http:", "https:"}

\* new URL(s).origin
origin(s) == SubSeq(s, 1, 2)

hasValidRequestUrl(request) ==
    LET isIRequest == request # Undefined /\ "url" \in DOMAIN request
        isIHttpRequest == request # Undefined /\ "http" \in DOMAIN request
    IN isIRequest \/ (isIHttpRequest /\ "url" \in DOMAIN request.http)

getClientResponseLinks(request, instanceId) ==
    LET payload == clientData.managementUrls
        rewritten(key) ==
            IF hasValidRequestUrl(request) /\ isURL(payload[key])
            THEN LET requestUrl == IF "url" \in DOMAIN request
                                   THEN request.url ELSE request.http.url
                 IN replace(payload[key], origin(payload[key]), origin(requestUrl))
            ELSE payload[key]
    IN [key \in DOMAIN payload |->
            replace(rewritten(key), clientData.managementUrls.id, instanceId)]

\* createCheckStatusResponse with the Location taken from the templates as
\* they are configured.
createCheckStatusResponse_configuredLocation(request, instanceId) ==
    LET httpManagementPayload == getClientResponseLinks(request, instanceId)
    IN [status |-> 202,
        body |-> httpManagementPayload,
        headers |-> ("Content-Type" :> "application/json")
                       @@ ("Location" :>
                              getClientResponseLinks(Undefined, instanceId).statusQueryGetUri)
                       @@ ("Retry-After" :> 10)]

createHttpManagementPayload(instanceId) == getClientResponseLinks(Undefined, instanceId)

\* clientDataAfterLinks with payload being this.clientData.managementUrls
\* itself instead of a copy of it.
clientDataAfterLinks_aliased(request, instanceId) ==
    [clientData EXCEPT !.managementUrls = getClientResponseLinks(request, instanceId)]

\* this.clientData after getClientResponseLinks: the URLs are rewritten in a
\* copy ({ ...this.clientData.managementUrls }).
clientDataAfterLinks(request, instanceId) == clientData

createCheckStatusResponse(request, instanceId) ==
    LET httpManagementPayload == getClientResponseLinks(request, instanceId)
    IN [status |-> 202,
        body |-> httpManagementPayload,
        headers |-> ("Content-Type" :> "application/json")
                       @@ ("Location" :> httpManagementPayload.statusQueryGetUri)
                       @@ ("Retry-After" :> 10)]

createHttpResponse(statusCode, body) ==
    LET bodyAsJson == JSONstringify(body)
    IN [status |-> statusCode,
        body |-> bodyAsJson,
        headers |-> ("Content-Type" :> "application/json")
                       @@ ("Content-Length" :>
                              IF bodyAsJson # Undefined THEN Len(bodyAsJson.s) ELSE 0)]

\* The URL getStatus queries.
getStatusUrl(instanceId, showHistory, showHistoryOutput) ==
    LET template == clientData.managementUrls.statusQueryGetUri
        idPlacholder == clientData.managementUrls.id
    IN replace(template, idPlacholder, instanceId)
         \o (IF showHistory THEN <<"&", showHistoryQueryKey, "=", "true">> ELSE <<>>)
         \o (IF showHistoryOutput
             THEN <<"&", showHistoryOutputQueryKey, "=", "true">> ELSE <<>>)

\* getStatusSwitch without its default case: every status code returns the body.
getStatusSwitch_noDefault(res) ==
    [returned |-> TRUE, value |-> res.body, error |-> Undefined]

\* getStatusSwitch that takes only 200 and 202 for an answer.
getStatusSwitch_only2xx(res) ==
    IF res.status \in {200, 202}
    THEN [returned |-> TRUE, value |-> res.body, error |-> Undefined]
    ELSE [returned |-> FALSE, value |-> Undefined,
          error |-> Error("Webhook returned unrecognized status", res.status,
                          res.body, <<>>)]

\* The switch of getStatus on res.status: the value returned, or the error
\* thrown.
getStatusSwitch(res) ==
    IF res.status \in {200, 202, 400, 404, 500}
    THEN [returned |-> TRUE, value |-> res.body, error |-> Undefined]
    ELSE [returned |-> FALSE, value |-> Undefined,
          error |-> Error("Webhook returned unrecognized status", res.status,
                          res.body, <<>>)]

(***************************************************************************)
(* WebhookClient: one HTTP exchange.                                       *)
(***************************************************************************)
NoNet ==
    [phase |-> "none", module |-> "", method |-> "", url |-> <<>>,
     written |-> Undefined, statusCode |-> 0, wire |-> <<>>, body |-> <<>>,
     thrown |-> FALSE, timeout |-> 0, timedOut |-> FALSE]

NoPromise == [state |-> "none", value |-> Undefined, error |-> Undefined]
Pending == [state |-> "pending", value |-> Undefined, error |-> Undefined]
Resolved(v) == [state |-> "resolved", value |-> v, error |-> Undefined]
Rejected(e) == [state |-> "rejected", value |-> Undefined, error |-> e]

\* The grace added to the timeout asked for.
Grace == 500

\* callWebhook that sends every scheme but https through the http module.
callWebhook_httpByDefault(url, httpMethod, input, timeoutInMilliseconds) ==
    LET requestData == JSONstringify(input)
        protocol == url[1]
    IN [net |-> [NoNet EXCEPT
                   !.phase = "sent",
                   !.module = IF protocol = "https:" THEN "https" ELSE "http",
                   !.method = httpMethod,
                   !.url = url,
                   !.written = IF httpMethod = "POST" THEN requestData
                               ELSE Undefined,
                   !.timeout = IF timeoutInMilliseconds # 0
                               THEN timeoutInMilliseconds + Grace ELSE 0],
        promise |-> Pending]

\* The promise executor of callWebhook, up to req.end(): the exchange opened
\* and the promise returned.  A throw inside the executor rejects the promise.
callWebhook(url, httpMethod, input, timeoutInMilliseconds) ==
    LET requestData == JSONstringify(input)
        protocol == url[1]
    IN IF protocol \notin {"http:", "https:"}
       THEN [net |-> NoNet,
             promise |-> Rejected(Error("Unrecognized request protocol", 0,
                                        Undefined, <<>>))]
       ELSE [net |-> [NoNet EXCEPT
                        !.phase = "sent",
                        !.module = IF protocol = "http:" THEN "http" ELSE "https",
                        !.method = httpMethod,
                        !.url = url,
                        !.written = IF httpMethod = "POST" THEN requestData
                                    ELSE Undefined,
                        !.timeout = IF timeoutInMilliseconds # 0
                                    THEN timeoutInMilliseconds + Grace ELSE 0],
             promise |-> Pending]

get(url, timeoutInMilliseconds) ==
    callWebhook(url, "GET", Undefined, timeoutInMilliseconds)
post(url, input, timeoutInMilliseconds) ==
    callWebhook(url, "POST", input, timeoutInMilliseconds)

\* The clock moves while a request is under way.
Latencies == 0..MaxLatency

\* The host sends the body in at most MaxChunks chunks: single tokens, then
\* all that is left.
ChunkSizes(body, wire) ==
    IF Len(body) + 1 < MaxChunks THEN {1, Len(wire)} ELSE {Len(wire)}

\* The response callback: the host's status line and headers have arrived.
IncomingMessage ==
    /\ net.phase = "sent"
    /\ \E code \in StatusCodes, text \in WireTexts :
          net' = [net EXCEPT !.phase = "response", !.statusCode = code,
                             !.wire = text, !.body = <<>>]
    /\ UNCHANGED <<other, clientData, taskHubName, call, pc, clock, hrStart,
                   sleepFor, promise, outcome, trace>>

\* ResOnData that puts each chunk in front of what has arrived.
ResOnData_prepend ==
    /\ net.phase = "response"
    /\ net.wire # <<>>
    /\ \E n \in ChunkSizes(net.body, net.wire) :
          net' = [net EXCEPT !.body = SubSeq(net.wire, 1, n) \o net.body,
                             !.wire = SubSeq(net.wire, n + 1, Len(net.wire))]
    /\ UNCHANGED <<other, clientData, taskHubName, call, pc, clock, hrStart,
                   sleepFor, promise, outcome, trace>>

\* res.on("data"): body += data
ResOnData ==
    /\ net.phase = "response"
    /\ net.wire # <<>>
    /\ \E n \in ChunkSizes(net.body, net.wire) :
          net' = [net EXCEPT !.body = net.body \o SubSeq(net.wire, 1, n),
                             !.wire = SubSeq(net.wire, n + 1, Len(net.wire))]
    /\ UNCHANGED <<other, clientData, taskHubName, call, pc, clock, hrStart,
                   sleepFor, promise, outcome, trace>>

\* res.on("end"): the body is parsed and the promise resolved.  JSON.parse
\* throws inside the event callback, outside the promise executor: nothing
\* rejects the promise then.
ResOnEnd ==
    /\ net.phase = "response"
    /\ net.wire = <<>>
    /\ \E latency \in Latencies : clock' = clock + latency
    /\ LET bodyObj == JSONparse(net.body)
       IN IF bodyObj = SyntaxError
          THEN /\ net' = [NoNet EXCEPT !.phase = "closed", !.thrown = TRUE]
               /\ UNCHANGED promise
          ELSE /\ net' = [NoNet EXCEPT !.phase = "closed"]
               /\ promise' = Resolved([status |-> net.statusCode, body |-> bodyObj])
    /\ UNCHANGED <<other, clientData, taskHubName, call, pc, hrStart,
                   sleepFor, outcome, trace>>

\* req.on("error"): the promise is rejected with the error.
ReqOnError ==
    /\ net.phase \in {"sent", "response"}
    /\ \E latency \in Latencies : clock' = clock + latency
    /\ \E error \in ConnectionErrors : promise' = Rejected(error)
    /\ net' = [NoNet EXCEPT !.phase = "closed"]
    /\ UNCHANGED <<other, clientData, taskHubName, call, pc, hrStart,
                   sleepFor, outcome, trace>>

\* The socket has been idle for options.timeout: the request emits "timeout".
\* Nothing listens to that event and nothing destroys the request.
ReqOnTimeout ==
    /\ net.phase \in {"sent", "response"}
    /\ net.timeout > 0
    /\ ~net.timedOut
    /\ clock' = clock + net.timeout
    /\ net' = [net EXCEPT !.timedOut = TRUE]
    /\ UNCHANGED <<other, clientData, taskHubName, call, pc, hrStart,
                   sleepFor, promise, outcome, trace>>

(***************************************************************************)
(* Calls of the client's operations.                                       *)
(***************************************************************************)
NoCall ==
    [op |-> "none", request |-> Undefined, instanceId |-> <<>>,
     timeoutInMilliseconds |-> 0, retryIntervalInMilliseconds |-> 0,
     showHistory |-> FALSE, showHistoryOutput |-> FALSE,
     eventName |-> <<>>, eventData |-> Undefined, taskHubName |-> <<>>,
     connectionName |-> <<>>, reason |-> <<>>, url |-> <<>>, calledAt |-> 0,
     createdTimeFrom |-> <<>>, createdTimeTo |-> <<>>, runtimeStatus |-> <<>>,
     orchestratorFunctionName |-> <<>>, input |-> Undefined]

\* What belongs to one call: its arguments and locals, the exchange and the
\* promises it waits for, what it has done so far.
IdleContext ==
    [call |-> NoCall, pc |-> "idle", hrStart |-> 0, sleepFor |-> 0,
     net |-> NoNet, promise |-> NoPromise, outcome |-> NoPromise, trace |-> <<>>]

\* An entry of the trace: a request issued, a sleep of d started, or a status
\* read by the polling loop (terminal or not).
TerminalStatuses == {"Completed", "Canceled", "Terminated", "Failed"}
Event(e, d) == [e |-> e, d |-> d, term |-> FALSE]
StatusEvent(st) ==
    [e |-> "status", d |-> 0, term |-> RuntimeStatusOf(st) \in TerminalStatuses]

Init ==
    /\ clientData = OrchestrationClientInputData
    /\ taskHubName = OrchestrationClientInputData.taskHubName
    /\ call = NoCall
    /\ pc = "idle"
    /\ clock = ClockOrigin
    /\ hrStart = 0
    /\ sleepFor = 0
    /\ net = NoNet
    /\ promise = NoPromise
    /\ outcome = NoPromise
    /\ trace = <<>>
    /\ other = IdleContext

(***************************************************************************)
(* getStatus                                                               *)
(***************************************************************************)
getStatus ==
    /\ pc = "idle"
    /\ \E instanceId \in InstanceIds, showHistory \in BOOLEAN,
          showHistoryOutput \in BOOLEAN :
          LET sent == get(getStatusUrl(instanceId, showHistory, showHistoryOutput), NoTimeout)
          IN /\ call' = [NoCall EXCEPT !.op = "getStatus",
                                       !.instanceId = instanceId,
                                       !.showHistory = showHistory,
                                       !.showHistoryOutput = showHistoryOutput]
             /\ net' = sent.net
             /\ promise' = sent.promise
    /\ pc' = "await"
    /\ outcome' = Pending
    /\ trace' = Append(trace, Event("request", 0))
    /\ UNCHANGED <<other, clientData, taskHubName, clock, hrStart, sleepFor>>

\* getStatusResume that asks once more when the request has failed.
getStatusResume_retry ==
    /\ call.op = "getStatus"
    /\ pc = "await"
    /\ promise.state \in {"resolved", "rejected"}
    /\ IF promise.state = "rejected" /\ Len(trace) < 2
       THEN LET sent == get(getStatusUrl(call.instanceId, call.showHistory,
                                         call.showHistoryOutput), NoTimeout)
            IN /\ net' = sent.net
               /\ promise' = sent.promise
               /\ trace' = Append(trace, Event("request", 0))
               /\ UNCHANGED <<pc, outcome>>
       ELSE /\ outcome' = IF promise.state = "rejected" THEN promise
                          ELSE LET r == getStatusSwitch(promise.value)
                               IN IF r.returned THEN Resolved(r.value)
                                  ELSE Rejected(r.error)
            /\ pc' = "done"
            /\ promise' = NoPromise
            /\ UNCHANGED <<net, trace>>
    /\ UNCHANGED <<other, clientData, taskHubName, call, clock, hrStart, sleepFor>>

\* After await this.webhookClient.get(...)
getStatusResume ==
    /\ call.op = "getStatus"
    /\ pc = "await"
    /\ promise.state \in {"resolved", "rejected"}
    /\ outcome' = IF promise.state = "rejected" THEN promise
                  ELSE LET r == getStatusSwitch(promise.value)
                       IN IF r.returned THEN Resolved(r.value) ELSE Rejected(r.error)
    /\ pc' = "done"
    /\ promise' = NoPromise
    /\ UNCHANGED <<other, clientData, taskHubName, call, clock, hrStart,
                   sleepFor, net, trace>>

(***************************************************************************)
(* getStatusAll and getStatusBy                                            *)
(***************************************************************************)
\* The URL getStatusAll queries: the status URL without an instance id.
getStatusAllUrl ==
    LET idPlaceholder == clientData.managementUrls.id
    IN replace(clientData.managementUrls.statusQueryGetUri, idPlaceholder, <<>>)

getStatusAll ==
    /\ pc = "idle"
    /\ LET sent == get(getStatusAllUrl, NoTimeout)
       IN /\ call' = [NoCall EXCEPT !.op = "getStatusAll"]
          /\ net' = sent.net
          /\ promise' = sent.promise
    /\ pc' = "await"
    /\ outcome' = Pending
    /\ trace' = Append(trace, Event("request", 0))
    /\ UNCHANGED <<other, clientData, taskHubName, clock, hrStart, sleepFor>>

\* After await this.webhookClient.get(...): the body is returned whatever the
\* status code.
getStatusAllResume ==
    /\ call.op = "getStatusAll"
    /\ pc = "await"
    /\ promise.state \in {"resolved", "rejected"}
    /\ outcome' = IF promise.state = "rejected" THEN promise
                  ELSE Resolved(promise.value.body)
    /\ pc' = "done"
    /\ promise' = NoPromise
    /\ UNCHANGED <<other, clientData, taskHubName, call, clock, hrStart,
                   sleepFor, net, trace>>

RECURSIVE joinStatuses(_, _)
\* runtimeStatus.map(toString).reduce(...): the values from the i-th on,
\* each after the first behind a comma.
joinStatuses(runtimeStatus, i) ==
    IF i > Len(runtimeStatus) THEN <<>>
    ELSE (IF i > 1 THEN <<",">> ELSE <<>>) \o <<runtimeStatus[i]>>
           \o joinStatuses(runtimeStatus, i + 1)

\* The URL getStatusBy queries.
getStatusByUrl(createdTimeFrom, createdTimeTo, runtimeStatus) ==
    getStatusAllUrl
      \o (IF createdTimeFrom # <<>>
          THEN <<"&", createdTimeFromQueryKey, "=">> \o createdTimeFrom ELSE <<>>)
      \o (IF createdTimeTo # <<>>
          THEN <<"&", createdTimeToQueryKey, "=">> \o createdTimeTo ELSE <<>>)
      \o (IF Len(runtimeStatus) > 0
          THEN <<"&", runtimeStatusQuerykey, "=">> \o joinStatuses(runtimeStatus, 1)
          ELSE <<>>)

getStatusBy ==
    /\ pc = "idle"
    /\ \E createdTimeFrom \in CreatedTimes, createdTimeTo \in CreatedTimes,
          runtimeStatus \in RuntimeStatusFilters :
          LET sent == get(getStatusByUrl(createdTimeFrom, createdTimeTo, runtimeStatus),
                          NoTimeout)
          IN /\ call' = [NoCall EXCEPT !.op = "getStatusBy",
                                       !.createdTimeFrom = createdTimeFrom,
                                       !.createdTimeTo = createdTimeTo,
                                       !.runtimeStatus = runtimeStatus]
             /\ net' = sent.net
             /\ promise' = sent.promise
    /\ pc' = "await"
    /\ outcome' = Pending
    /\ trace' = Append(trace, Event("request", 0))
    /\ UNCHANGED <<other, clientData, taskHubName, clock, hrStart, sleepFor>>

\* After await this.webhookClient.get(...)
getStatusByResume ==
    /\ call.op = "getStatusBy"
    /\ pc = "await"
    /\ promise.state \in {"resolved", "rejected"}
    /\ outcome' = IF promise.state = "rejected" THEN promise
                  ELSE IF promise.value.status > 202
                  THEN Rejected(Error("Webhook returned status code",
                                      promise.value.status, promise.value.body, <<>>))
                  ELSE Resolved(promise.value.body)
    /\ pc' = "done"
    /\ promise' = NoPromise
    /\ UNCHANGED <<other, clientData, taskHubName, call, clock, hrStart,
                   sleepFor, net, trace>>

(***************************************************************************)
(* waitForCompletionOrCreateCheckStatusResponse                           *)
(***************************************************************************)
\* Utils.getHrMilliseconds(process.hrtime(hrStart)) read when the clock shows now.
getHrMilliseconds(start, now) == now - start

\* waitSwitch with the Failed case fallen through into the 200 cases.
waitSwitch_failed200(st) ==
    LET runtimeStatus == RuntimeStatusOf(st)
    IN IF Truthy(st) /\ runtimeStatus = "Completed"
       THEN [returned |-> TRUE, response |-> createHttpResponse(200, OutputOf(st))]
       ELSE IF Truthy(st) /\ runtimeStatus \in {"Canceled", "Terminated", "Failed"}
       THEN [returned |-> TRUE, response |-> createHttpResponse(200, st)]
       ELSE [returned |-> FALSE, response |-> Undefined]

\* The switch on status.runtimeStatus: the response returned, if any.
waitSwitch(st) ==
    LET runtimeStatus == RuntimeStatusOf(st)
        none == [returned |-> FALSE, response |-> Undefined]
    IN IF Truthy(st)
       THEN CASE runtimeStatus = "Completed" ->
                   [returned |-> TRUE, response |-> createHttpResponse(200, OutputOf(st))]
              [] runtimeStatus \in {"Canceled", "Terminated"} ->
                   [returned |-> TRUE, response |-> createHttpResponse(200, st)]
              [] runtimeStatus = "Failed" ->
                   [returned |-> TRUE, response |-> createHttpResponse(500, st)]
              [] OTHER -> none
       ELSE none

\* sleepDelay with the two branches swapped.
sleepDelay_swapped(timeoutInMilliseconds, retryIntervalInMilliseconds, hrElapsedMilliseconds) ==
    LET remainingTime == timeoutInMilliseconds - hrElapsedMilliseconds
    IN IF remainingTime > retryIntervalInMilliseconds
       THEN remainingTime
       ELSE retryIntervalInMilliseconds

\* sleepDelay without the clamp to the time that remains.
sleepDelay_unclamped(timeoutInMilliseconds, retryIntervalInMilliseconds, hrElapsedMilliseconds) ==
    retryIntervalInMilliseconds

\* The delay handed to Utils.sleep.
sleepDelay(timeoutInMilliseconds, retryIntervalInMilliseconds, hrElapsedMilliseconds) ==
    LET remainingTime == timeoutInMilliseconds - hrElapsedMilliseconds
    IN IF remainingTime > retryIntervalInMilliseconds
       THEN retryIntervalInMilliseconds
       ELSE remainingTime

\* intervalsRefused with the operands of the comparison swapped.
intervalsRefused_swapped(timeoutInMilliseconds, retryIntervalInMilliseconds) ==
    timeoutInMilliseconds > retryIntervalInMilliseconds

\* The precondition on the two intervals: TRUE when the call is refused.
intervalsRefused(timeoutInMilliseconds, retryIntervalInMilliseconds) ==
    retryIntervalInMilliseconds > timeoutInMilliseconds

\* beforeDeadline off by one tick: the fallback comes one tick early.
beforeDeadline_early(hrElapsedMilliseconds, timeoutInMilliseconds) ==
    hrElapsedMilliseconds + 1 < timeoutInMilliseconds

\* beforeDeadline that still holds at the deadline itself.
beforeDeadline_late(hrElapsedMilliseconds, timeoutInMilliseconds) ==
    hrElapsedMilliseconds <= timeoutInMilliseconds

\* Whether the loop goes on to sleep (or else falls back to the 202 response).
beforeDeadline(hrElapsedMilliseconds, timeoutInMilliseconds) ==
    hrElapsedMilliseconds < timeoutInMilliseconds

\* timeoutResponse built without the triggering request.
timeoutResponse_noRequest(request, instanceId) ==
    createCheckStatusResponse(Undefined, instanceId)

\* The response returned once the deadline has passed.
timeoutResponse(request, instanceId) == createCheckStatusResponse(request, instanceId)

waitForCompletionOrCreateCheckStatusResponse ==
    /\ pc = "idle"
    /\ \E request \in Requests, instanceId \in InstanceIds,
          timeoutInMilliseconds \in Timeouts,
          retryIntervalInMilliseconds \in RetryIntervals :
          /\ call' = [NoCall EXCEPT
                        !.op = "waitForCompletionOrCreateCheckStatusResponse",
                        !.calledAt = clock,
                        !.request = request,
                        !.instanceId = instanceId,
                        !.timeoutInMilliseconds = timeoutInMilliseconds,
                        !.retryIntervalInMilliseconds = retryIntervalInMilliseconds]
          /\ IF intervalsRefused(timeoutInMilliseconds, retryIntervalInMilliseconds)
             THEN /\ outcome' = Rejected(Error("Total timeout should be bigger than retry timeout",
                                               0, Undefined, <<>>))
                  /\ pc' = "done"
                  /\ UNCHANGED <<hrStart, net, promise, trace>>
             ELSE LET sent == get(getStatusUrl(instanceId, FALSE, FALSE), NoTimeout)
                  IN /\ hrStart' = clock
                     /\ net' = sent.net
                     /\ promise' = sent.promise
                     /\ outcome' = Pending
                     /\ pc' = "await"
                     /\ trace' = Append(trace, Event("request", 0))
    /\ UNCHANGED <<other, clientData, taskHubName, clock, sleepFor>>

\* After await this.getStatus(instanceId): the rest of the loop body.
waitAfterGetStatus ==
    /\ call.op = "waitForCompletionOrCreateCheckStatusResponse"
    /\ pc = "await"
    /\ promise.state \in {"resolved", "rejected"}
    /\ promise' = NoPromise
    /\ LET r == IF promise.state = "resolved" THEN getStatusSwitch(promise.value)
                ELSE [returned |-> FALSE, value |-> Undefined, error |-> promise.error]
           w == waitSwitch(r.value)
           hrElapsedMilliseconds == getHrMilliseconds(hrStart, clock)
           delay == sleepDelay(call.timeoutInMilliseconds,
                               call.retryIntervalInMilliseconds,
                               hrElapsedMilliseconds)
       IN IF ~r.returned
          THEN /\ outcome' = Rejected(r.error)
               /\ pc' = "done"
               /\ UNCHANGED <<sleepFor, trace, clientData>>
          ELSE IF w.returned
          THEN /\ outcome' = Resolved(w.response)
               /\ pc' = "done"
               /\ sleepFor' = sleepFor
               /\ trace' = Append(trace, StatusEvent(r.value))
               /\ clientData' = clientData
          ELSE IF beforeDeadline(hrElapsedMilliseconds, call.timeoutInMilliseconds)
          THEN /\ sleepFor' = delay
               /\ pc' = "sleeping"
               /\ outcome' = outcome
               /\ trace' = trace \o <<StatusEvent(r.value), Event("sleep", delay)>>
               /\ clientData' = clientData
          ELSE /\ outcome' = Resolved(timeoutResponse(call.request, call.instanceId))
               /\ pc' = "done"
               /\ sleepFor' = sleepFor
               /\ trace' = Append(trace, StatusEvent(r.value))
               /\ clientData' = clientDataAfterLinks(call.request, call.instanceId)
    /\ UNCHANGED <<other, taskHubName, call, clock, hrStart, net>>

NumberIn(tr, e) == Cardinality({i \in 1..Len(tr) : tr[i].e = e})
NumberOf(e) == NumberIn(trace, e)

\* waitAfterSleep that tests the deadline when the timer fires and falls back
\* to the 202 response without asking again.
waitAfterSleep_checksDeadline ==
    /\ call.op = "waitForCompletionOrCreateCheckStatusResponse"
    /\ pc = "sleeping"
    /\ NumberOf("request") < MaxQueries
    /\ clock' = clock + sleepFor
    /\ IF beforeDeadline(getHrMilliseconds(hrStart, clock + sleepFor),
                         call.timeoutInMilliseconds)
       THEN LET sent == get(getStatusUrl(call.instanceId, FALSE, FALSE), NoTimeout)
            IN /\ net' = sent.net
               /\ promise' = sent.promise
               /\ pc' = "await"
               /\ trace' = Append(trace, Event("request", 0))
               /\ UNCHANGED <<clientData, outcome>>
       ELSE /\ outcome' = Resolved(timeoutResponse(call.request, call.instanceId))
            /\ pc' = "done"
            /\ clientData' = clientDataAfterLinks(call.request, call.instanceId)
            /\ UNCHANGED <<net, promise, trace>>
    /\ UNCHANGED <<other, taskHubName, call, hrStart, sleepFor>>

\* The Utils.sleep timer fires: the loop calls getStatus again.
waitAfterSleep ==
    /\ call.op = "waitForCompletionOrCreateCheckStatusResponse"
    /\ pc = "sleeping"
    /\ NumberOf("request") < MaxQueries
    /\ clock' = clock + sleepFor
    /\ LET sent == get(getStatusUrl(call.instanceId, FALSE, FALSE), NoTimeout)
       IN /\ net' = sent.net
          /\ promise' = sent.promise
    /\ pc' = "await"
    /\ trace' = Append(trace, Event("request", 0))
    /\ UNCHANGED <<other, clientData, taskHubName, call, hrStart, sleepFor, outcome>>

(***************************************************************************)
(* raiseEvent                                                              *)
(***************************************************************************)
\* Tokens that are runs of word characters (\w+).
WordTokens ==
    {"Storage", "Other", "DurableFunctionsHub", "OtherHub", "XXX", "abc123",
     "i2", "approve", "INSTANCEID"}

\* url.replace(/(connection=)([\w]+)/gi, "$1" + connectionName): every run of
\* word characters that follows "connection=".
RECURSIVE replaceConnection(_, _, _)
replaceConnection(url, connectionName, i) ==
    IF i > Len(url) THEN <<>>
    ELSE (IF i > 1 /\ url[i - 1] \in {"&connection=", "?connection="}
             /\ url[i] \in WordTokens
          THEN connectionName ELSE <<url[i]>>)
         \o replaceConnection(url, connectionName, i + 1)

\* The URL raiseEvent posts to.
raiseEventUrl(instanceId, eventName, hubName, connectionName) ==
    LET idPlaceholder == clientData.managementUrls.id
        url1 == replace(replace(clientData.managementUrls.sendEventPostUri,
                                idPlaceholder, instanceId),
                        eventNamePlaceholder, eventName)
        url2 == IF hubName # <<>>
                THEN replace(url1, clientData.taskHubName, hubName) ELSE url1
    IN IF connectionName # <<>>
       THEN replaceConnection(url2, connectionName, 1) ELSE url2

\* raiseEventSwitch with 410 handled as rewind handles it.
raiseEventSwitch_410fails(res, instanceId) ==
    CASE res.status = 202 -> Resolved(Undefined)
      [] res.status = 404 ->
            Rejected(Error("No instance with ID found", 0, Undefined, instanceId))
      [] res.status = 400 ->
            Rejected(Error("Only application/json request content is supported",
                           0, Undefined, <<>>))
      [] OTHER ->
            Rejected(Error("Webhook returned unrecognized status code",
                           res.status, res.body, <<>>))

\* The switch of raiseEvent on res.status.
raiseEventSwitch(res, instanceId) ==
    CASE res.status \in {202, 410} -> Resolved(Undefined)
      [] res.status = 404 ->
            Rejected(Error("No instance with ID found", 0, Undefined, instanceId))
      [] res.status = 400 ->
            Rejected(Error("Only application/json request content is supported",
                           0, Undefined, <<>>))
      [] OTHER ->
            Rejected(Error("Webhook returned unrecognized status code",
                           res.status, res.body, <<>>))

\* eventNameMissing that lets every name through.
eventNameMissing_never(eventName) == FALSE

\* if (!eventName): the empty sequence stands for the empty string and for an
\* argument left out, both falsy.
eventNameMissing(eventName) == eventName = <<>>

raiseEvent ==
    /\ pc = "idle"
    /\ \E instanceId \in RaiseEventInstanceIds, eventName \in EventNames,
          eventData \in {Undefined, OutputX1}, hubName \in TaskHubNames,
          connectionName \in ConnectionNames :
          /\ call' = [NoCall EXCEPT !.op = "raiseEvent",
                                    !.instanceId = instanceId,
                                    !.eventName = eventName,
                                    !.eventData = eventData,
                                    !.taskHubName = hubName,
                                    !.connectionName = connectionName]
          /\ IF eventNameMissing(eventName)
             THEN /\ outcome' = Rejected(Error("eventName must be a valid string.",
                                               0, Undefined, <<>>))
                  /\ pc' = "done"
                  /\ UNCHANGED <<net, promise, trace>>
             ELSE LET sent == post(raiseEventUrl(instanceId, eventName, hubName,
                                                 connectionName), eventData,
                                   NoTimeout)
                  IN /\ net' = sent.net
                     /\ promise' = sent.promise
                     /\ outcome' = Pending
                     /\ pc' = "await"
                     /\ trace' = Append(trace, Event("request", 0))
    /\ UNCHANGED <<other, clientData, taskHubName, clock, hrStart, sleepFor>>

\* After await this.webhookClient.post(...)
raiseEventResume ==
    /\ call.op = "raiseEvent"
    /\ pc = "await"
    /\ promise.state \in {"resolved", "rejected"}
    /\ outcome' = IF promise.state = "rejected" THEN promise
                  ELSE raiseEventSwitch(promise.value, call.instanceId)
    /\ pc' = "done"
    /\ promise' = NoPromise
    /\ UNCHANGED <<other, clientData, taskHubName, call, clock, hrStart,
                   sleepFor, net, trace>>

(***************************************************************************)
(* rewind and terminate                                                    *)
(***************************************************************************)
\* The URL rewind posts to.
rewindUrl(instanceId, reason) ==
    LET idPlaceholder == clientData.managementUrls.id
    IN replace(replace(clientData.managementUrls.rewindPostUri,
                       idPlaceholder, instanceId),
               reasonPlaceholder, reason)

\* rewindSwitch with 410 handled as terminate handles it.
rewindSwitch_410ok(res, instanceId) ==
    CASE res.status \in {202, 410} -> Resolved(Undefined)
      [] res.status = 404 ->
            Rejected(Error("No instance with ID found", 0, Undefined, instanceId))
      [] OTHER ->
            Rejected(Error("Webhook returned unrecognized status code",
                           res.status, res.body, <<>>))

\* The switch of rewind on res.status.
rewindSwitch(res, instanceId) ==
    CASE res.status = 202 -> Resolved(Undefined)
      [] res.status = 404 ->
            Rejected(Error("No instance with ID found", 0, Undefined, instanceId))
      [] res.status = 410 ->
            Rejected(Error("The rewind operation is only supported on failed orchestration instances",
                           0, Undefined, <<>>))
      [] OTHER ->
            Rejected(Error("Webhook returned unrecognized status code",
                           res.status, res.body, <<>>))

rewind ==
    /\ pc = "idle"
    /\ \E instanceId \in InstanceIds, reason \in Reasons :
          LET sent == post(rewindUrl(instanceId, reason), Undefined, NoTimeout)
          IN /\ call' = [NoCall EXCEPT !.op = "rewind",
                                       !.instanceId = instanceId,
                                       !.reason = reason]
             /\ net' = sent.net
             /\ promise' = sent.promise
    /\ pc' = "await"
    /\ outcome' = Pending
    /\ trace' = Append(trace, Event("request", 0))
    /\ UNCHANGED <<other, clientData, taskHubName, clock, hrStart, sleepFor>>

\* After await this.webhookClient.post(...)
rewindResume ==
    /\ call.op = "rewind"
    /\ pc = "await"
    /\ promise.state \in {"resolved", "rejected"}
    /\ outcome' = IF promise.state = "rejected" THEN promise
                  ELSE rewindSwitch(promise.value, call.instanceId)
    /\ pc' = "done"
    /\ promise' = NoPromise
    /\ UNCHANGED <<other, clientData, taskHubName, call, clock, hrStart,
                   sleepFor, net, trace>>

\* The URL terminate posts to.
terminateUrl(instanceId, reason) ==
    LET idPlaceholder == clientData.managementUrls.id
    IN replace(replace(clientData.managementUrls.terminatePostUri,
                       idPlaceholder, instanceId),
               reasonPlaceholder, reason)

\* terminateSwitch with 410 handled as rewind handles it.
terminateSwitch_410fails(res, instanceId) ==
    rewindSwitch(res, instanceId)

\* The switch of terminate on res.status.
terminateSwitch(res, instanceId) ==
    CASE res.status \in {202, 410} -> Resolved(Undefined)
      [] res.status = 404 ->
            Rejected(Error("No instance with ID found", 0, Undefined, instanceId))
      [] OTHER ->
            Rejected(Error("Webhook returned unrecognized status code",
                           res.status, res.body, <<>>))

terminate ==
    /\ pc = "idle"
    /\ \E instanceId \in InstanceIds, reason \in Reasons :
          LET sent == post(terminateUrl(instanceId, reason), Undefined, NoTimeout)
          IN /\ call' = [NoCall EXCEPT !.op = "terminate",
                                       !.instanceId = instanceId,
                                       !.reason = reason]
             /\ net' = sent.net
             /\ promise' = sent.promise
    /\ pc' = "await"
    /\ outcome' = Pending
    /\ trace' = Append(trace, Event("request", 0))
    /\ UNCHANGED <<other, clientData, taskHubName, clock, hrStart, sleepFor>>

\* After await this.webhookClient.post(...)
terminateResume ==
    /\ call.op = "terminate"
    /\ pc = "await"
    /\ promise.state \in {"resolved", "rejected"}
    /\ outcome' = IF promise.state = "rejected" THEN promise
                  ELSE terminateSwitch(promise.value, call.instanceId)
    /\ pc' = "done"
    /\ promise' = NoPromise
    /\ UNCHANGED <<other, clientData, taskHubName, call, clock, hrStart,
                   sleepFor, net, trace>>

(***************************************************************************)
(* startNew                                                                *)
(***************************************************************************)
\* The URL startNew posts to.
startNewUrl(orchestratorFunctionName, instanceId) ==
    replace(replace(clientData.creationUrls.createNewInstancePostUri,
                    functionNamePlaceholder, orchestratorFunctionName),
            instanceIdPlaceholder,
            IF instanceId # <<>> THEN <<"/">> \o instanceId ELSE <<>>)

\* startNewSwitch that fails on every status but 200.
startNewSwitch_above200(res) ==
    IF res.status > 200
    THEN Rejected(Error(String(res.body), 0, Undefined, <<>>))
    ELSE IF Truthy(res.body) THEN Resolved(IdOf(res.body))
    ELSE Resolved(Undefined)

\* What startNew does with the response.
startNewSwitch(res) ==
    IF res.status > 202
    THEN Rejected(Error(String(res.body), 0, Undefined, <<>>))
    ELSE IF Truthy(res.body) THEN Resolved(IdOf(res.body))
    ELSE Resolved(Undefined)

\* orchestratorFunctionNameMissing that lets every name through.
orchestratorFunctionNameMissing_never(orchestratorFunctionName) == FALSE

\* if (!orchestratorFunctionName)
orchestratorFunctionNameMissing(orchestratorFunctionName) ==
    orchestratorFunctionName = <<>>

startNew ==
    /\ pc = "idle"
    /\ \E orchestratorFunctionName \in OrchestratorFunctionNames,
          instanceId \in OptionalInstanceIds, input \in Inputs :
          /\ call' = [NoCall EXCEPT
                        !.op = "startNew",
                        !.orchestratorFunctionName = orchestratorFunctionName,
                        !.instanceId = instanceId,
                        !.input = input]
          /\ IF orchestratorFunctionNameMissing(orchestratorFunctionName)
             THEN /\ outcome' = Rejected(Error("orchestratorFunctionName must be a valid string.",
                                               0, Undefined, <<>>))
                  /\ pc' = "done"
                  /\ UNCHANGED <<net, promise, trace>>
             ELSE LET sent == post(startNewUrl(orchestratorFunctionName, instanceId),
                                   input, NoTimeout)
                  IN /\ net' = sent.net
                     /\ promise' = sent.promise
                     /\ outcome' = Pending
                     /\ pc' = "await"
                     /\ trace' = Append(trace, Event("request", 0))
    /\ UNCHANGED <<other, clientData, taskHubName, clock, hrStart, sleepFor>>

\* After await this.webhookClient.post(...)
startNewResume ==
    /\ call.op = "startNew"
    /\ pc = "await"
    /\ promise.state \in {"resolved", "rejected"}
    /\ outcome' = IF promise.state = "rejected" THEN promise
                  ELSE startNewSwitch(promise.value)
    /\ pc' = "done"
    /\ promise' = NoPromise
    /\ UNCHANGED <<other, clientData, taskHubName, call, clock, hrStart,
                   sleepFor, net, trace>>

(***************************************************************************)
(* Calls of the synchronous operations, and the clients they may be called  *)
(* on.                                                                      *)
(***************************************************************************)
callCreateHttpManagementPayload ==
    /\ pc = "idle"
    /\ \E instanceId \in PayloadIds :
          /\ call' = [NoCall EXCEPT !.op = "createHttpManagementPayload",
                                    !.instanceId = instanceId]
          /\ outcome' = Resolved(createHttpManagementPayload(instanceId))
          /\ clientData' = clientDataAfterLinks(Undefined, instanceId)
    /\ pc' = "done"
    /\ UNCHANGED <<other, taskHubName, clock, hrStart, sleepFor, net,
                   promise, trace>>

callCreateCheckStatusResponse ==
    /\ pc = "idle"
    /\ \E request \in CheckStatusRequests, instanceId \in PayloadIds :
          /\ call' = [NoCall EXCEPT !.op = "createCheckStatusResponse",
                                    !.request = request,
                                    !.instanceId = instanceId]
          /\ outcome' = Resolved(createCheckStatusResponse(request, instanceId))
          /\ clientData' = clientDataAfterLinks(request, instanceId)
    /\ pc' = "done"
    /\ UNCHANGED <<other, taskHubName, clock, hrStart, sleepFor, net,
                   promise, trace>>

\* A client constructed from any of the binding data.
InitPayload ==
    /\ clientData \in BindingDatas
    /\ taskHubName = clientData.taskHubName
    /\ call = NoCall
    /\ pc = "idle"
    /\ clock = ClockOrigin
    /\ hrStart = 0
    /\ sleepFor = 0
    /\ net = NoNet
    /\ promise = NoPromise
    /\ outcome = NoPromise
    /\ trace = <<>>
    /\ other = IdleContext

NextPayload ==
    \/ callCreateHttpManagementPayload
    \/ callCreateCheckStatusResponse

SpecPayload == InitPayload /\ [][NextPayload]_vars

(***************************************************************************)
(* Calls of the transport itself.                                          *)
(***************************************************************************)
webhookGet ==
    /\ pc = "idle"
    /\ \E url \in TransportUrls, timeoutInMilliseconds \in TransportTimeouts :
          LET sent == get(url, timeoutInMilliseconds)
          IN /\ call' = [NoCall EXCEPT !.op = "get", !.url = url,
                                       !.timeoutInMilliseconds = timeoutInMilliseconds]
             /\ net' = sent.net
             /\ promise' = sent.promise
             /\ trace' = IF sent.net.phase = "sent"
                         THEN Append(trace, Event("request", 0)) ELSE trace
    /\ pc' = "await"
    /\ UNCHANGED <<other, clientData, taskHubName, clock, hrStart, sleepFor, outcome>>

webhookPost ==
    /\ pc = "idle"
    /\ \E url \in TransportUrls, input \in Inputs,
          timeoutInMilliseconds \in TransportTimeouts :
          LET sent == post(url, input, timeoutInMilliseconds)
          IN /\ call' = [NoCall EXCEPT !.op = "post", !.url = url,
                                       !.input = input,
                                       !.timeoutInMilliseconds = timeoutInMilliseconds]
             /\ net' = sent.net
             /\ promise' = sent.promise
             /\ trace' = IF sent.net.phase = "sent"
                         THEN Append(trace, Event("request", 0)) ELSE trace
    /\ pc' = "await"
    /\ UNCHANGED <<other, clientData, taskHubName, clock, hrStart, sleepFor, outcome>>

NextTransport ==
    \/ webhookGet
    \/ webhookPost
    \/ IncomingMessage
    \/ ResOnData
    \/ ResOnEnd
    \/ ReqOnError
    \/ ReqOnTimeout

SpecTransport == Init /\ [][NextTransport]_vars

(***************************************************************************)
(* Two calls under way on one client.  The event loop runs one callback at *)
(* a time: the steps of the call it runs are the steps above; Switch is    *)
(* the loop turning to the other call.  The client's fields and the clock  *)
(* are shared, all the rest is the call's own.                              *)
(***************************************************************************)
Context ==
    [call |-> call, pc |-> pc, hrStart |-> hrStart, sleepFor |-> sleepFor,
     net |-> net, promise |-> promise, outcome |-> outcome, trace |-> trace]

\* Switch with hrStart a field of the client instead of a local of the call.
Switch_sharedStart ==
    /\ call' = other.call
    /\ pc' = other.pc
    /\ sleepFor' = other.sleepFor
    /\ net' = other.net
    /\ promise' = other.promise
    /\ outcome' = other.outcome
    /\ trace' = other.trace
    /\ other' = Context
    /\ UNCHANGED <<clientData, taskHubName, clock, hrStart>>

Switch ==
    /\ call' = other.call
    /\ pc' = other.pc
    /\ hrStart' = other.hrStart
    /\ sleepFor' = other.sleepFor
    /\ net' = other.net
    /\ promise' = other.promise
    /\ outcome' = other.outcome
    /\ trace' = other.trace
    /\ other' = Context
    /\ UNCHANGED <<clientData, taskHubName, clock>>

\* The calls of the two-call runs: without a request, the first for abc123
\* and the second for i2, with a retry interval from 1 to the timeout.
ConcurrentTimeouts == {1, 2}

concurrentWait ==
    /\ waitForCompletionOrCreateCheckStatusResponse
    /\ call'.request = Undefined
    /\ call'.instanceId = (IF other.call.op = "none" THEN <<"abc123">> ELSE <<"i2">>)
    /\ call'.timeoutInMilliseconds \in ConcurrentTimeouts
    /\ call'.retryIntervalInMilliseconds >= 1
    /\ call'.retryIntervalInMilliseconds <= call'.timeoutInMilliseconds

\* The answers of the two-call runs: 200 or 503, a status that is running or
\* completed, in one chunk.
concurrentIncomingMessage ==
    /\ IncomingMessage
    /\ net'.statusCode \in {200, 503}
    /\ net'.wire \in {JSONstringify(StatusObject(rs, OutputX1)).s :
                        rs \in {"Running", "Completed"}}

concurrentResOnData ==
    /\ ResOnData
    /\ net'.wire = <<>>

NextConcurrent ==
    \/ concurrentWait
    \/ waitAfterGetStatus
    \/ waitAfterSleep
    \/ concurrentIncomingMessage
    \/ concurrentResOnData
    \/ ResOnEnd
    \/ Switch

SpecConcurrent == Init /\ [][NextConcurrent]_vars

(***************************************************************************)
(* The specification.                                                      *)
(***************************************************************************)
Next ==
    \/ getStatus
    \/ getStatusResume
    \/ getStatusAll
    \/ getStatusAllResume
    \/ getStatusBy
    \/ getStatusByResume
    \/ waitForCompletionOrCreateCheckStatusResponse
    \/ waitAfterGetStatus
    \/ waitAfterSleep
    \/ raiseEvent
    \/ raiseEventResume
    \/ rewind
    \/ rewindResume
    \/ terminate
    \/ terminateResume
    \/ startNew
    \/ startNewResume
    \/ callCreateHttpManagementPayload
    \/ callCreateCheckStatusResponse
    \/ IncomingMessage
    \/ ResOnData
    \/ ResOnEnd
    \/ ReqOnError

Spec == Init /\ [][Next]_vars

(***************************************************************************)
(* Properties of the polling loop.                                         *)
(***************************************************************************)
WaitOp == "waitForCompletionOrCreateCheckStatusResponse"
AcceptedByGetStatus == {200, 202, 400, 404, 500}
LastEvent == trace[Len(trace)]

\* C1: a call with retryIntervalInMilliseconds > timeoutInMilliseconds fails
\* with the configuration error; it has issued no status request, started no
\* sleep and opened no HTTP exchange.
C1_RefusedBeforeAnyRequest ==
    (call.op = WaitOp
       /\ call.retryIntervalInMilliseconds > call.timeoutInMilliseconds)
      => /\ pc = "done"
         /\ outcome.state = "rejected"
         /\ outcome.error.message = "Total timeout should be bigger than retry timeout"
         /\ NumberOf("request") = 0
         /\ NumberOf("sleep") = 0
         /\ net.phase = "none"
         /\ promise.state = "none"

C1_Witness ==
    /\ call.op = WaitOp
    /\ call.retryIntervalInMilliseconds = 2
    /\ call.timeoutInMilliseconds = 1
    /\ outcome.state = "rejected"

\* C2: when getStatus returns a status to the polling loop, a terminal
\* runtimeStatus ends the call in that very step, with no further request or
\* sleep: Completed with 200 and the output as body, Canceled and Terminated
\* with 200 and the status as body, Failed with 500 and the status as body.
\* Any other runtimeStatus does not end the call with 200 or 500.  A call
\* that has ended takes no further step.
C2_TerminalStatusEndsCall ==
    [][/\ (call.op = WaitOp /\ pc = "done") => FALSE
       /\ (call.op = WaitOp /\ pc = "await" /\ promise.state = "resolved"
             /\ promise.value.status \in AcceptedByGetStatus)
            => LET st == promise.value.body
                   rs == RuntimeStatusOf(st)
                   ended(code, body) ==
                       /\ pc' = "done"
                       /\ outcome'.state = "resolved"
                       /\ outcome'.value.status = code
                       /\ outcome'.value.body = JSONstringify(body)
                       /\ NumberIn(trace', "request") = NumberOf("request")
                       /\ NumberIn(trace', "sleep") = NumberOf("sleep")
               IN /\ rs = "Completed" => ended(200, OutputOf(st))
                  /\ rs \in {"Canceled", "Terminated"} => ended(200, st)
                  /\ rs = "Failed" => ended(500, st)
                  /\ rs \notin {"Completed", "Canceled", "Terminated", "Failed"}
                       => ~(outcome'.state = "resolved"
                              /\ outcome'.value.status \in {200, 500})
      ]_vars

C2_Witness ==
    /\ call.op = WaitOp
    /\ pc = "done"
    /\ outcome.state = "resolved"
    /\ outcome.value.status = 500
    /\ NumberOf("request") = 2
    /\ LastEvent.e = "status" /\ LastEvent.term

\* C3: a call that ends after a status that is not terminal (the deadline
\* has been reached) resolves, and with the value
\* createCheckStatusResponse(request, instanceId): 202, the management payload
\* of the instance as body, its statusQueryGetUri as Location, Retry-After 10.
C3_TimeoutIsCheckStatusResponse ==
    (call.op = WaitOp /\ pc = "done" /\ trace # <<>>
       /\ LastEvent.e = "status" /\ ~LastEvent.term)
      => /\ outcome.state = "resolved"
         /\ outcome.value = createCheckStatusResponse(call.request, call.instanceId)
         /\ outcome.value.status = 202
         /\ outcome.value.headers["Retry-After"] = 10
         /\ outcome.value.headers["Location"] = outcome.value.body.statusQueryGetUri
         /\ outcome.value.body.id = call.instanceId
         /\ outcome.value.body.statusQueryGetUri =
               (IF call.request = Undefined THEN DataOrigin
                ELSE SubSeq(call.request.url, 1, 2))
                 \o <<"/instances/">> \o call.instanceId \o DataQuery

C3_Witness ==
    /\ call.op = WaitOp
    /\ pc = "done"
    /\ call.timeoutInMilliseconds = 2
    /\ call.retryIntervalInMilliseconds = 1
    /\ call.request # Undefined
    /\ NumberOf("request") = 3
    /\ outcome.state = "resolved"
    /\ outcome.value.status = 202

\* C4: the 202 response is returned only when the time elapsed since the
\* start of the call has reached timeoutInMilliseconds, and only when no
\* status read by the call was terminal.
C4_FallbackOnlyAtDeadline ==
    (call.op = WaitOp /\ pc = "done" /\ outcome.state = "resolved"
       /\ outcome.value.status = 202)
      => /\ clock - hrStart >= call.timeoutInMilliseconds
         /\ \A i \in 1..Len(trace) : trace[i].e = "status" => ~trace[i].term

C4_Witness ==
    /\ call.op = WaitOp
    /\ pc = "done"
    /\ outcome.state = "resolved"
    /\ outcome.value.status = 202
    /\ call.timeoutInMilliseconds = 3
    /\ clock - hrStart = 3
    /\ NumberOf("sleep") = 2

RECURSIVE SleptIn(_, _)
\* The sum of the sleeps among the first n entries of a trace.
SleptIn(tr, n) ==
    IF n = 0 THEN 0
    ELSE SleptIn(tr, n - 1) + (IF tr[n].e = "sleep" THEN tr[n].d ELSE 0)

\* The time the status queries themselves have taken so far.
QueryLatency == (clock - hrStart) - SleptIn(trace, Len(trace))

\* C5: when k statuses that are not terminal have been read, the next one is
\* Completed and k * retryIntervalInMilliseconds plus the query latency is
\* below timeoutInMilliseconds, the call ends with 200 and the output, after
\* exactly k + 1 requests and k sleeps, alternating (request, sleep, ...,
\* request), each sleep of retryIntervalInMilliseconds.
C5_CompletedAfterKPolls ==
    [][(call.op = WaitOp /\ pc = "await" /\ promise.state = "resolved"
          /\ promise.value.status \in AcceptedByGetStatus
          /\ RuntimeStatusOf(promise.value.body) = "Completed"
          /\ NumberOf("status") * call.retryIntervalInMilliseconds + QueryLatency
               < call.timeoutInMilliseconds)
         => LET k == NumberOf("status")
            IN /\ pc' = "done"
               /\ outcome'.state = "resolved"
               /\ outcome'.value.status = 200
               /\ outcome'.value.body = JSONstringify(OutputOf(promise.value.body))
               /\ NumberIn(trace', "request") = k + 1
               /\ NumberIn(trace', "sleep") = k
               /\ Len(trace') = 3 * k + 2
               /\ \A i \in 1..Len(trace') :
                     /\ trace'[i].e = CASE i % 3 = 1 -> "request"
                                        [] i % 3 = 2 -> "status"
                                        [] OTHER -> "sleep"
                     /\ trace'[i].e = "sleep"
                          => trace'[i].d = call.retryIntervalInMilliseconds
      ]_vars

C5_Witness ==
    /\ call.op = WaitOp
    /\ pc = "done"
    /\ call.timeoutInMilliseconds = 3
    /\ call.retryIntervalInMilliseconds = 1
    /\ NumberOf("request") = 3
    /\ NumberOf("sleep") = 2
    /\ QueryLatency = 0
    /\ outcome.state = "resolved"
    /\ outcome.value.status = 200
    /\ outcome.value.body = JSONstringify(OutputX1)

Min(a, b) == IF a < b THEN a ELSE b

\* C6 as claimed: every sleep lasts min(retryIntervalInMilliseconds,
\* timeoutInMilliseconds - elapsed), is strictly positive, is at most
\* retryIntervalInMilliseconds and ends no later than the deadline.
C6_SleepPositiveAndClamped ==
    (call.op = WaitOp /\ pc = "sleeping")
      => /\ sleepFor = Min(call.retryIntervalInMilliseconds,
                           call.timeoutInMilliseconds - (clock - hrStart))
         /\ sleepFor > 0
         /\ sleepFor <= call.retryIntervalInMilliseconds
         /\ clock + sleepFor <= hrStart + call.timeoutInMilliseconds

\* C6 amended: every sleep lasts min(retryIntervalInMilliseconds,
\* timeoutInMilliseconds - elapsed), is at most retryIntervalInMilliseconds,
\* is strictly positive when retryIntervalInMilliseconds is, and ends no later
\* than the deadline.
C6_SleepClamped ==
    (call.op = WaitOp /\ pc = "sleeping")
      => /\ sleepFor = Min(call.retryIntervalInMilliseconds,
                           call.timeoutInMilliseconds - (clock - hrStart))
         /\ call.retryIntervalInMilliseconds > 0 => sleepFor > 0
         /\ sleepFor <= call.retryIntervalInMilliseconds
         /\ clock + sleepFor <= hrStart + call.timeoutInMilliseconds
         /\ LastEvent = Event("sleep", sleepFor)

C6_Witness ==
    /\ call.op = WaitOp
    /\ pc = "sleeping"
    /\ call.timeoutInMilliseconds = 3
    /\ call.retryIntervalInMilliseconds = 2
    /\ clock - hrStart = 2
    /\ sleepFor = 1

\* C7: when a status query of the polling loop fails (the transport promise
\* is rejected, or getStatus does not accept the status code), the call is
\* rejected with that error in the same step, without a further request or
\* sleep; a call that has ended takes no further step.
C7_QueryFailureAbortsCall ==
    [][/\ (call.op = WaitOp /\ pc = "done") => FALSE
       /\ (call.op = WaitOp /\ pc = "await"
             /\ \/ promise.state = "rejected"
                \/ /\ promise.state = "resolved"
                   /\ promise.value.status \notin AcceptedByGetStatus)
            => /\ pc' = "done"
               /\ outcome'.state = "rejected"
               /\ outcome'.error =
                     IF promise.state = "rejected" THEN promise.error
                     ELSE Error("Webhook returned unrecognized status",
                                promise.value.status, promise.value.body, <<>>)
               /\ trace' = trace
      ]_vars

C7_Witness ==
    /\ call.op = WaitOp
    /\ pc = "done"
    /\ outcome.state = "rejected"
    /\ outcome.error.status = 503
    /\ NumberOf("request") = 2
    /\ NumberOf("sleep") = 1
    /\ LastEvent.e = "request"

\* C8: a call with retryIntervalInMilliseconds <= timeoutInMilliseconds that
\* has not ended can always go on: it never waits for something that cannot
\* come.  (A sleeping call that has used up the model's MaxQueries is left
\* aside.)
C8_CallNeverStuck ==
    (call.op = WaitOp
       /\ call.retryIntervalInMilliseconds <= call.timeoutInMilliseconds
       /\ pc # "done"
       /\ ~(pc = "sleeping" /\ NumberOf("request") >= MaxQueries))
      => ENABLED Next

C13_StartNewThreeOutcomes ==
    [][/\ (call.op = "startNew" /\ net.phase = "response" /\ net'.phase = "closed"
             /\ promise'.state # "rejected")
            => /\ promise'.state = "resolved"
               /\ promise'.value.status = net.statusCode
               /\ net.body = <<>> => ~Truthy(promise'.value.body)
               /\ net.body # <<>> => JSONstringify(promise'.value.body).s = net.body
       /\ (call.op = "startNew" /\ pc = "await" /\ promise.state = "resolved")
            => /\ pc' = "done"
               /\ promise.value.status > 202
                    => /\ outcome'.state = "rejected"
                       /\ outcome'.error.message = String(promise.value.body)
               /\ (promise.value.status <= 202 /\ Truthy(promise.value.body))
                    => outcome' = Resolved(IdOf(promise.value.body))
               /\ (promise.value.status <= 202 /\ ~Truthy(promise.value.body))
                    => outcome' = Resolved(Undefined)
      ]_vars

\* The part of C13 that is about responses whose body is JSON text: what
\* startNew does once the transport has resolved.
StartNewAfterTransport ==
    [][(call.op = "startNew" /\ pc = "await" /\ promise.state = "resolved")
         => /\ pc' = "done"
            /\ promise.value.status > 202
                 => /\ outcome'.state = "rejected"
                    /\ outcome'.error.message = String(promise.value.body)
            /\ (promise.value.status <= 202 /\ Truthy(promise.value.body))
                 => outcome' = Resolved(IdOf(promise.value.body))
            /\ (promise.value.status <= 202 /\ ~Truthy(promise.value.body))
                 => outcome' = Resolved(Undefined)
      ]_vars

\* C14: raiseEvent called without an event name and startNew called without
\* an orchestrator function name fail with the error of the missing argument,
\* whatever the other arguments; no request was issued and no HTTP exchange
\* opened.
C14_MissingArgumentNoRequest ==
    (\/ call.op = "raiseEvent" /\ call.eventName = <<>>
     \/ call.op = "startNew" /\ call.orchestratorFunctionName = <<>>)
      => /\ pc = "done"
         /\ outcome.state = "rejected"
         /\ outcome.error.message =
               (IF call.op = "raiseEvent" THEN "eventName must be a valid string."
                ELSE "orchestratorFunctionName must be a valid string.")
         /\ trace = <<>>
         /\ net = NoNet
         /\ promise = NoPromise

C14_Witness ==
    /\ call.op = "startNew"
    /\ call.orchestratorFunctionName = <<>>
    /\ call.instanceId = <<"abc123">>
    /\ call.input = OutputX1
    /\ outcome.state = "rejected"

(***************************************************************************)
(* Properties of the management payload.                                   *)
(***************************************************************************)
RECURSIVE replaceAll(_, _, _, _)
\* s with pat replaced by rep at every occurrence, from position i on.
replaceAll(s, pat, rep, i) ==
    IF i > Len(s) THEN <<>>
    ELSE IF OccursAt(s, pat, i)
    THEN rep \o replaceAll(s, pat, rep, i + Len(pat))
    ELSE <<s[i]>> \o replaceAll(s, pat, rep, i + 1)

PayloadKeys ==
    {"id", "statusQueryGetUri", "sendEventPostUri", "terminatePostUri", "rewindPostUri"}

PlaceholderReplacedOnce ==
    (call.op = "createHttpManagementPayload" /\ pc = "done")
      => \A key \in PayloadKeys :
            LET template == clientData.managementUrls[key]
                first == CHOOSE i \in 1..Len(template) :
                            /\ template[i] = clientData.managementUrls.id[1]
                            /\ \A j \in 1..(i - 1) : template[j] # template[i]
            IN outcome.value[key] = [template EXCEPT ![first] = call.instanceId[1]]

\* C16: createCheckStatusResponse(request, instanceId) returns status 202,
\* Retry-After 10, as body the management payload of the instance (each
\* template with the request's origin for its own when the request carries a
\* URL, and the id for the placeholder) and as Location that body's
\* statusQueryGetUri; it issues no request.
C16_CheckStatusResponseShape ==
    (call.op = "createCheckStatusResponse" /\ pc = "done")
      => LET request == call.request
             response == outcome.value
             carriesUrl ==
                 /\ request # Undefined
                 /\ \/ "url" \in DOMAIN request
                    \/ "http" \in DOMAIN request /\ "url" \in DOMAIN request.http
             requestUrl == IF "url" \in DOMAIN request THEN request.url
                           ELSE request.http.url
             expected(key) ==
                 LET template == clientData.managementUrls[key]
                     moved == IF carriesUrl /\ template[1] \in {"http:", "https:"}
                              THEN SubSeq(requestUrl, 1, 2)
                                     \o SubSeq(template, 3, Len(template))
                              ELSE template
                     first == CHOOSE i \in 1..Len(moved) :
                                 /\ moved[i] = clientData.managementUrls.id[1]
                                 /\ \A j \in 1..(i - 1) : moved[j] # moved[i]
                 IN [moved EXCEPT ![first] = call.instanceId[1]]
         IN /\ outcome.state = "resolved"
            /\ response.status = 202
            /\ response.headers["Retry-After"] = 10
            /\ response.headers["Location"] = response.body.statusQueryGetUri
            /\ DOMAIN response.body = PayloadKeys
            /\ \A key \in PayloadKeys : response.body[key] = expected(key)
            /\ ~carriesUrl => response.body = createHttpManagementPayload(call.instanceId)
            /\ trace = <<>>
            /\ net = NoNet
            /\ promise = NoPromise

C16_Witness ==
    /\ call.op = "createCheckStatusResponse"
    /\ pc = "done"
    /\ call.instanceId = <<"i2">>
    /\ call.request # Undefined
    /\ "http" \in DOMAIN call.request
    /\ "url" \in DOMAIN call.request.http
    /\ clientData.managementUrls.statusQueryGetUri[2] = "//localhost:7071"
    /\ outcome.value.headers["Location"][2] = "//example.com"
    /\ outcome.value.headers["Location"][4] = "i2"

(***************************************************************************)
(* Properties of the transport.                                            *)
(***************************************************************************)
TransportOps == {"get", "post"}

\* C17: when the body received is not JSON text (an empty body included),
\* the end of the response rejects the promise of get/post with the parse
\* failure: the promise is neither resolved nor left pending.
C17_MalformedBodyRejects ==
    [][(call.op \in TransportOps /\ net.phase = "response" /\ net.wire = <<>>
          /\ JSONparse(net.body) = SyntaxError /\ net'.phase = "closed")
         => promise'.state = "rejected"
      ]_vars

\* C18: get/post on a URL whose scheme is neither http nor https is rejected
\* with the protocol error, and no request exists for that call at any time;
\* for an http or https URL the request is made with the module of the
\* scheme.
C18_SchemeSelectsModule ==
    call.op \in TransportOps
      => /\ call.url[1] \notin {"http:", "https:"}
              => /\ promise.state = "rejected"
                 /\ promise.error.message = "Unrecognized request protocol"
                 /\ net = NoNet
                 /\ trace = <<>>
         /\ (call.url[1] \in {"http:", "https:"} /\ net.phase \in {"sent", "response"})
              => /\ net.module = (IF call.url[1] = "http:" THEN "http" ELSE "https")
                 /\ net.url = call.url
                 /\ net.method = (IF call.op = "get" THEN "GET" ELSE "POST")

C18_Witness ==
    /\ call.op = "post"
    /\ call.url[1] = "ftp:"
    /\ call.input = OutputX1
    /\ promise.state = "rejected"

\* C19: once the wire timeout of a call that was given a timeout has fired
\* (the timeout asked for plus the grace), the call is rejected.
C19_WireTimeoutRejects ==
    (call.op \in TransportOps /\ net.timedOut)
      => /\ call.timeoutInMilliseconds > 0
         /\ net.timeout = call.timeoutInMilliseconds + Grace
         /\ promise.state = "rejected"

\* What holds of the wire timeout: it is the timeout asked for plus the
\* grace, and it fires only for a call that was given a timeout.
WireTimeoutIsTimeoutPlusGrace ==
    (call.op \in TransportOps /\ net.phase \in {"sent", "response"})
      => /\ net.timeout = (IF call.timeoutInMilliseconds > 0
                           THEN call.timeoutInMilliseconds + Grace ELSE 0)
         /\ net.timedOut => call.timeoutInMilliseconds > 0

(***************************************************************************)
(* Two calls on one client.                                                *)
(***************************************************************************)
\* C20: with two waitForCompletionOrCreateCheckStatusResponse calls for
\* different instances interleaved on one client, every step either leaves
\* the call that is not running as it was or exchanges the two calls intact;
\* every request of a call carries that call's instance id; what a call does
\* with an answer is what it does alone with the same answer at the same
\* time since its own start: the same failure, the same 200 response, the
\* same sleep, the same 202 response for its own instance; and each call has
\* issued one request more than it has slept, once its request is out.
C20_CallsDoNotInterfere ==
    [][/\ \/ other' = other
          \/ other' = Context /\ Context' = other
       /\ (other' = other /\ net'.phase = "sent" /\ net.phase # "sent")
            => net'.url = DataOrigin \o <<"/instances/">> \o call'.instanceId
                            \o DataQuery
       /\ (other' = other /\ call.op = WaitOp /\ pc = "await"
             /\ promise.state \in {"resolved", "rejected"})
            => LET elapsed == clock - call.calledAt
                   timeout == call.timeoutInMilliseconds
                   retry == call.retryIntervalInMilliseconds
                   answered == promise.state = "resolved"
                                 /\ promise.value.status \in AcceptedByGetStatus
                   rs == IF answered THEN RuntimeStatusOf(promise.value.body)
                         ELSE "undefined"
               IN /\ ~answered => pc' = "done" /\ outcome'.state = "rejected"
                  /\ (answered /\ rs = "Completed")
                       => /\ pc' = "done"
                          /\ outcome' = Resolved(createHttpResponse(200,
                                            OutputOf(promise.value.body)))
                  /\ (answered /\ rs = "Running" /\ elapsed < timeout)
                       => /\ pc' = "sleeping"
                          /\ sleepFor' = Min(retry, timeout - elapsed)
                          /\ outcome' = outcome
                  /\ (answered /\ rs = "Running" /\ elapsed >= timeout)
                       => /\ pc' = "done"
                          /\ outcome'.state = "resolved"
                          /\ outcome'.value.status = 202
                          /\ outcome'.value.body.id = call.instanceId
                          /\ outcome'.value =
                                createCheckStatusResponse(Undefined, call.instanceId)
       /\ \A c \in {Context, other} :
             c.call.op = WaitOp
               => NumberIn(c.trace, "request") =
                     NumberIn(c.trace, "sleep")
                       + (IF c.pc \in {"await", "done"} THEN 1 ELSE 0)
      ]_vars

C20_Witness ==
    /\ call.op = WaitOp
    /\ other.call.op = WaitOp
    /\ call.instanceId # other.call.instanceId
    /\ call.calledAt # other.call.calledAt
    /\ pc = "done"
    /\ other.pc = "done"
    /\ outcome.state = "resolved" /\ outcome.value.status = 202
    /\ other.outcome.state = "resolved" /\ other.outcome.value.status = 200
    /\ NumberOf("request") = 2
    /\ NumberIn(other.trace, "request") = 2

(***************************************************************************)
(* Properties of the client as a whole.                                    *)
(***************************************************************************)
\* C21: no operation of the client, ended well or not, changes what the
\* constructor has set: taskHubName, the management URL templates and the
\* creation URL template are, in every state, those of the binding data.
C21_ConfigurationUnchanged ==
    /\ clientData = OrchestrationClientInputData
    /\ clientData.managementUrls = OrchestrationClientInputData.managementUrls
    /\ clientData.creationUrls = OrchestrationClientInputData.creationUrls
    /\ taskHubName = OrchestrationClientInputData.taskHubName

C21_Witness ==
    /\ call.op = "createCheckStatusResponse"
    /\ pc = "done"
    /\ call.request # Undefined
    /\ "url" \in DOMAIN call.request
    /\ outcome.value.body.statusQueryGetUri # clientData.managementUrls.statusQueryGetUri
    /\ outcome.value.body.statusQueryGetUri[2] = "//example.com"

SingleRequestOps ==
    {"getStatus", "getStatusAll", "getStatusBy", "raiseEvent", "rewind",
     "startNew", "terminate"}

\* C22: a call of getStatus, getStatusAll, getStatusBy, raiseEvent, rewind,
\* startNew or terminate that has passed the check of its arguments has
\* issued exactly one request, whatever the answer or the failure, and that
\* request is one HTTP exchange: after the call no step issues a request or
\* opens an exchange, and an exchange that is closed stays closed.
C22_ExactlyOneRequest ==
    [][call.op \in SingleRequestOps
         => /\ (call.op = "raiseEvent" => call.eventName # <<>>)
              /\ (call.op = "startNew" => call.orchestratorFunctionName # <<>>)
              => /\ NumberOf("request") = 1
                 /\ NumberOf("sleep") = 0
                 /\ net.phase # "none"
            /\ trace' = trace
            /\ net'.phase = "sent" => net.phase = "sent"
            /\ net.phase = "response" => net'.phase \in {"response", "closed"}
            /\ net.phase = "closed" => net'.phase = "closed"
      ]_vars

C22_Witness ==
    /\ call.op = "getStatusBy"
    /\ call.runtimeStatus = <<"Running", "Failed">>
    /\ pc = "done"
    /\ outcome.state = "rejected"
    /\ outcome.error.status = 500
    /\ NumberOf("request") = 1
    /\ net.phase = "closed"

\* C23: the URL raiseEvent posts to carries the instance id and the event
\* name where the template has their placeholders, whatever the overrides; a
\* task hub override changes the task hub segment and nothing else, a
\* connection override the connection segment and nothing else.
C23_OverrideRewritesHubOnly ==
    (call.op = "raiseEvent" /\ net.phase \in {"sent", "response"})
      => net.url = DataOrigin
                     \o <<"/instances/">> \o call.instanceId
                     \o <<"/raiseEvent/">> \o call.eventName
                     \o <<"?taskHub=">>
                     \o (IF call.taskHubName # <<>> THEN call.taskHubName
                         ELSE <<"DurableFunctionsHub">>)
                     \o <<"&connection=">>
                     \o (IF call.connectionName # <<>> THEN call.connectionName
                         ELSE <<"Storage">>)
                     \o <<"&code=", "XXX">>

\* What holds of the override: the URL is as above for an instance id that is
\* not the name of the task hub.
OverrideRewritesHubOfOtherIds ==
    (call.op = "raiseEvent" /\ net.phase \in {"sent", "response"}
       /\ call.instanceId # clientData.taskHubName)
      => net.url = DataOrigin
                     \o <<"/instances/">> \o call.instanceId
                     \o <<"/raiseEvent/">> \o call.eventName
                     \o <<"?taskHub=">>
                     \o (IF call.taskHubName # <<>> THEN call.taskHubName
                         ELSE <<"DurableFunctionsHub">>)
                     \o <<"&connection=">>
                     \o (IF call.connectionName # <<>> THEN call.connectionName
                         ELSE <<"Storage">>)
                     \o <<"&code=", "XXX">>

\* C24: a data event adds its chunk at the end of the body and settles
\* nothing; the promise of get/post is resolved only at the end of the
\* response, with the status code and the value whose JSON text is all that
\* has arrived, in the order of arrival; it is rejected only with a
\* connection error, and an exchange that closes before any response does
\* reject it; once settled the promise does not change.
C24_ResolvedAtEndOnly ==
    [][call.op \in TransportOps
         => /\ net'.body # net.body /\ net'.phase = "response"
                 /\ net.phase = "response"
              => /\ net'.body \o net'.wire = net.body \o net.wire
                 /\ Len(net'.body) > Len(net.body)
                 /\ promise' = promise
                 /\ promise.state = "pending"
            /\ promise' # promise => promise.state = "pending"
            /\ (promise'.state = "resolved" /\ promise.state # "resolved")
              => /\ net.phase = "response"
                 /\ net.wire = <<>>
                 /\ net'.phase = "closed"
                 /\ promise'.value.status = net.statusCode
                 /\ JSONstringify(promise'.value.body).s = net.body
            /\ (promise'.state = "rejected" /\ promise.state # "rejected")
              => /\ promise'.error \in ConnectionErrors
                 /\ net'.phase = "closed"
            /\ (net.phase = "sent" /\ net'.phase = "closed")
              => promise'.state = "rejected"
      ]_vars

C24_Witness ==
    /\ call.op = "post"
    /\ net.phase = "closed"
    /\ promise.state = "resolved"
    /\ promise.value.status = 404
    /\ promise.value.body = StatusObject("Running", OutputX1)

\* C25: a call of waitForCompletionOrCreateCheckStatusResponse whose
\* intervals pass the precondition has issued a status request from its first
\* step on, a timeout of 0 included; the 202 response is returned only by the
\* step that has just read a status that is not terminal, never by the step
\* that ends a sleep; and a terminal status read when the deadline has already
\* passed ends the call with 200 or 500, not with 202.
C25_QueryBeforeFallback ==
    [][(call'.op = WaitOp
          /\ call'.retryIntervalInMilliseconds <= call'.timeoutInMilliseconds)
         => /\ NumberIn(trace', "request") >= 1
            /\ pc = "sleeping" => pc' = "await" /\ outcome' = outcome
            /\ (pc # "done" /\ pc' = "done" /\ outcome'.state = "resolved"
                  /\ outcome'.value.status = 202)
              => /\ pc = "await"
                 /\ promise.state = "resolved"
                 /\ promise.value.status \in AcceptedByGetStatus
                 /\ RuntimeStatusOf(promise.value.body) \notin TerminalStatuses
                 /\ trace' = Append(trace, StatusEvent(promise.value.body))
            /\ (pc = "await" /\ promise.state = "resolved"
                  /\ promise.value.status \in AcceptedByGetStatus
                  /\ RuntimeStatusOf(promise.value.body) \in TerminalStatuses
                  /\ clock - hrStart >= call.timeoutInMilliseconds)
              => /\ pc' = "done"
                 /\ outcome'.state = "resolved"
                 /\ outcome'.value.status \in {200, 500}
      ]_vars

C25_Witness ==
    /\ call.op = WaitOp
    /\ call.timeoutInMilliseconds = 0
    /\ call.retryIntervalInMilliseconds = 0
    /\ pc = "done"
    /\ clock - hrStart = 1
    /\ NumberOf("request") = 1
    /\ NumberOf("sleep") = 0
    /\ outcome.state = "resolved"
    /\ outcome.value.status = 200
    /\ LastEvent.e = "status" /\ LastEvent.term

\* ceil(a / b) for a >= 0 and b >= 1.
CeilDiv(a, b) == (a + b - 1) \div b

\* C26: a call with 1 <= retryIntervalInMilliseconds <= timeoutInMilliseconds
\* issues at most ceil(timeout / retryInterval) + 1 status requests and
\* starts at most ceil(timeout / retryInterval) sleeps, whatever the latency
\* of the queries.
C26_QueriesBounded ==
    (call.op = WaitOp
       /\ call.retryIntervalInMilliseconds >= 1
       /\ call.retryIntervalInMilliseconds <= call.timeoutInMilliseconds)
      => /\ NumberOf("request")
              <= CeilDiv(call.timeoutInMilliseconds,
                         call.retryIntervalInMilliseconds) + 1
         /\ NumberOf("sleep")
              <= CeilDiv(call.timeoutInMilliseconds,
                         call.retryIntervalInMilliseconds)

C26_Witness ==
    /\ call.op = WaitOp
    /\ call.timeoutInMilliseconds = 3
    /\ call.retryIntervalInMilliseconds = 2
    /\ pc = "done"
    /\ NumberOf("request") = 3
    /\ NumberOf("sleep") = 2
    /\ outcome.state = "resolved"
    /\ outcome.value.status = 202

=============================================================================
